---- MODULE Spec2Model ----
(***************************************************************************)
(* The C bridge over the two-party distributed point function (DPF):       *)
(* CGenerateKeys, CCreateEvaluationContext and CEvaluateNext64 of          *)
(* src/pipeline/distributed_point_function_c_bridge.cc, together with the  *)
(* DPF engine they call (dpf/distributed_point_function.h), the protobuf   *)
(* encode/decode of the messages and the CBytes allocator                  *)
(* (pipeline/cbytes_utils.h).  The bridge is translated from its source.   *)
(* The engine, the wire format and the allocator are not part of the       *)
(* source tree; they are written from the design document (sections 3, 4   *)
(* and 6) and are marked as such where they are defined.                   *)
(***************************************************************************)
EXTENDS Integers, Sequences, FiniteSets, TLC

(***************************************************************************)
(* Bounds of the model.                                                    *)
(***************************************************************************)
\* Largest domain_bits the parameters are drawn from.
MaxBits == 2
\* Longest prefix list handed to one CEvaluateNext64 call.
MaxReq == 2
\* Width of the output group in bits: uint64_t in the bridge, scaled down.
OutBits == 3

\* Width of a seed in bits (the security parameter of the external PRG).
SeedBits == 3

(***************************************************************************)
(* absl::StatusCode values the bridge returns.                             *)
(***************************************************************************)
kOk == 0
kInvalidArgument == 3
kInternal == 13

(***************************************************************************)
(* Arithmetic helpers.                                                     *)
(***************************************************************************)
RECURSIVE Pow2(_)
Pow2(n) == IF n <= 0 THEN 1 ELSE 2 * Pow2(n - 1)

\* Bitwise exclusive or of two naturals.
RECURSIVE Xor(_, _)
Xor(a, b) ==
    IF a = 0 THEN b
    ELSE IF b = 0 THEN a
    ELSE ((a + b) % 2) + 2 * Xor(a \div 2, b \div 2)

\* The output group: integers modulo 2^OutBits.
Modulus == Pow2(OutBits)
GroupAdd(a, b) == (a + b) % Modulus
GroupNeg(a) == (Modulus - (a % Modulus)) % Modulus
Seeds == 0 .. (Pow2(SeedBits) - 1)

\* The bit of a len-bit path taken when descending to depth j (1 = first).
PathBit(path, len, j) == (path \div Pow2(len - j)) % 2
\* The first `to` bits of a len-bit path.
Ancestor(path, len, to) == path \div Pow2(len - to)

(***************************************************************************)
(* 4.1 Parameter model.                                                    *)
(***************************************************************************)
StrictlyIncreasing(s) == \A i \in 1 .. (Len(s) - 1) : s[i] < s[i + 1]

\* DistributedPointFunction::Create: validation of the parameters.
ParametersValid(p) ==
    /\ p.domain_bits >= 1
    /\ Len(p.levels) >= 1
    /\ StrictlyIncreasing(p.levels)
    /\ p.levels[1] >= 1
    /\ p.levels[Len(p.levels)] = p.domain_bits

Create(p) ==
    IF ParametersValid(p)
    THEN [ok |-> TRUE, code |-> kOk, parameters |-> p]
    ELSE [ok |-> FALSE, code |-> kInvalidArgument, parameters |-> p,
          message |-> "invalid parameters"]

\* The first checkpoint level above `level`.
NextLevel(p, level) ==
    LET above == {i \in 1 .. Len(p.levels) : p.levels[i] > level}
    IN  p.levels[CHOOSE i \in above : \A j \in above : i <= j]

(***************************************************************************)
(* 4.2 Tree expansion engine.                                              *)
(***************************************************************************)
\* The external pseudorandom generator: a block of 2*SeedBits+2 bits.
PRG(seed) ==
    (3 * seed + 27 * seed * seed + ((seed * seed * seed) \div 3) + 20)
        % Pow2(2 * SeedBits + 2)

\* The block split into two seeds of width w and two bits, the parent's
\* control bit XORed into both child control bits.
SplitBlock(block, w, control_bit) ==
    [left_seed          |-> block % w,
     right_seed         |-> (block \div w) % w,
     left_control_bit   |-> Xor((block \div (w * w)) % 2, control_bit),
     right_control_bit  |-> Xor((block \div (2 * w * w)) % 2, control_bit)]

Expand(seed, control_bit) == SplitBlock(PRG(seed), Pow2(SeedBits), control_bit)

\* The seed read as an element of the output group.
Convert(seed) == seed % Modulus

\* The child on side `bit` of the expansion e of `node`, with the level's
\* correction word applied when the node's control bit is set.
CorrectedChild(node, bit, cw, e) ==
    IF bit = 0
    THEN [seed |-> IF node.control_bit = 1
                   THEN Xor(e.left_seed, cw.seed_correction)
                   ELSE e.left_seed,
          control_bit |-> IF node.control_bit = 1
                          THEN Xor(e.left_control_bit, cw.control_bit_correction_left)
                          ELSE e.left_control_bit]
    ELSE [seed |-> IF node.control_bit = 1
                   THEN Xor(e.right_seed, cw.seed_correction)
                   ELSE e.right_seed,
          control_bit |-> IF node.control_bit = 1
                          THEN Xor(e.right_control_bit, cw.control_bit_correction_right)
                          ELSE e.right_control_bit]

\* One level down from a node, to the child on side `bit`.
ExpandCorrected(node, bit, cw) ==
    CorrectedChild(node, bit, cw, Expand(node.seed, node.control_bit))

(***************************************************************************)
(* 4.3 Key generator.                                                      *)
(***************************************************************************)
\* The correction word of one level, from the expansions e0 and e1 of both
\* parties' nodes on alpha's path; `bit` is alpha's bit at this level.
CorrectionWordOf(e0, e1, bit) ==
    [seed_correction |->
        IF bit = 0 THEN Xor(e0.right_seed, e1.right_seed)
                   ELSE Xor(e0.left_seed, e1.left_seed),
     control_bit_correction_left |->
        Xor(Xor(e0.left_control_bit, e1.left_control_bit), Xor(bit, 1)),
     control_bit_correction_right |->
        Xor(Xor(e0.right_control_bit, e1.right_control_bit), bit)]

CorrectionWord(n0, n1, bit) ==
    CorrectionWordOf(Expand(n0.seed, n0.control_bit),
                     Expand(n1.seed, n1.control_bit), bit)

\* The walk down alpha's path: KeyWalk computes the correction word of level
\* i+1, KeyWalkDown applies it to both parties' nodes and goes on.
RECURSIVE KeyWalk(_, _, _, _, _, _)
RECURSIVE KeyWalkDown(_, _, _, _, _, _, _, _)
KeyWalkDown(domain_bits, alpha, i, n0, n1, cws, bit, cw) ==
    KeyWalk(domain_bits, alpha, i + 1,
            ExpandCorrected(n0, bit, cw), ExpandCorrected(n1, bit, cw),
            Append(cws, cw))

KeyWalk(domain_bits, alpha, i, n0, n1, cws) ==
    IF i = domain_bits
    THEN [n0 |-> n0, n1 |-> n1, correction_words |-> cws]
    ELSE KeyWalkDown(domain_bits, alpha, i, n0, n1, cws,
                     PathBit(alpha, domain_bits, i + 1),
                     CorrectionWord(n0, n1, PathBit(alpha, domain_bits, i + 1)))

\* The final scalar correction: both parties' last on-path seeds combine to beta.
LastLevelCorrection(n0, n1, beta) ==
    IF n1.control_bit = 1
    THEN GroupNeg(GroupAdd(GroupAdd(beta, GroupNeg(Convert(n0.seed))), Convert(n1.seed)))
    ELSE GroupAdd(GroupAdd(beta, GroupNeg(Convert(n0.seed))), Convert(n1.seed))

\* One party's key.
MakeKey(party, seeds, cws, last) ==
    [party_id |-> party,
     root_seed |-> seeds[party + 1],
     root_control_bit |-> party,
     correction_words |-> cws,
     last_level_correction |-> last]

\* Both keys from the finished walk w.
MakeKeys(seeds, w, beta) ==
    [ok |-> TRUE, code |-> kOk,
     first  |-> MakeKey(0, seeds, w.correction_words,
                        LastLevelCorrection(w.n0, w.n1, beta)),
     second |-> MakeKey(1, seeds, w.correction_words,
                        LastLevelCorrection(w.n0, w.n1, beta))]

\* DistributedPointFunction::GenerateKeys; `seeds` are the two random root seeds.
GenerateKeys(p, alpha, beta, seeds) ==
    IF alpha < 0 \/ alpha >= Pow2(p.domain_bits) \/ beta < 0 \/ beta >= Modulus
    THEN [ok |-> FALSE, code |-> kInvalidArgument,
          message |-> "alpha or beta out of range"]
    ELSE MakeKeys(seeds,
                  KeyWalk(p.domain_bits, alpha, 0,
                          [seed |-> seeds[1], control_bit |-> 0],
                          [seed |-> seeds[2], control_bit |-> 1], <<>>),
                  beta)

(***************************************************************************)
(* 4.4 Evaluation context construction.                                    *)
(***************************************************************************)
RootNode(key) ==
    [path_prefix |-> 0, seed |-> key.root_seed, control_bit |-> key.root_control_bit]

CreateEvaluationContext(p, key) ==
    IF Len(key.correction_words) # p.domain_bits \/ key.party_id \notin {0, 1}
    THEN [ok |-> FALSE, code |-> kInvalidArgument,
          message |-> "key does not match the parameters"]
    ELSE [ok |-> TRUE, code |-> kOk,
          context |-> [key |-> key, current_level |-> 0,
                       frontier |-> <<RootNode(key)>>]]

(***************************************************************************)
(* 4.5 Evaluator.                                                          *)
(***************************************************************************)
\* From a node at depth `from` down to the node of the `to`-bit path `prefix`.
RECURSIVE Descend(_, _, _, _, _)
Descend(key, node, from, to, prefix) ==
    IF from >= to
    THEN [path_prefix |-> prefix, seed |-> node.seed, control_bit |-> node.control_bit]
    ELSE Descend(key,
                 ExpandCorrected(node, PathBit(prefix, to, from + 1),
                                 key.correction_words[from + 1]),
                 from + 1, to, prefix)

\* The positions of the frontier that hold the path `anc`.
FrontierHits(ctx, anc) ==
    {i \in 1 .. Len(ctx.frontier) : ctx.frontier[i].path_prefix = anc}

\* Faulty variant of ResumeFrom: the frontier's node is taken for the root and
\* expanded again from depth 0.
ResumeFromTop(ctx, hits) ==
    IF hits = {}
    THEN [from |-> 0, node |-> RootNode(ctx.key)]
    ELSE [from |-> 0,
          node |-> ctx.frontier[CHOOSE i \in hits : \A j \in hits : i <= j]]

\* The node the evaluation resumes from: the first of `hits` in the frontier
\* when there is one, the root otherwise.
ResumeFrom(ctx, hits) ==
    IF hits = {}
    THEN [from |-> 0, node |-> RootNode(ctx.key)]
    ELSE [from |-> ctx.current_level,
          node |-> ctx.frontier[CHOOSE i \in hits : \A j \in hits : i <= j]]

\* The node the evaluation of `prefix` resumes from: its ancestor in the
\* frontier when there is one, the root otherwise.
ResumeNode(ctx, to, prefix) ==
    ResumeFrom(ctx, FrontierHits(ctx, Ancestor(prefix, to, ctx.current_level)))

DescendFrom(key, r, to, prefix) == Descend(key, r.node, r.from, to, prefix)

FrontierNode(ctx, to, prefix) ==
    DescendFrom(ctx.key, ResumeNode(ctx, to, prefix), to, prefix)

\* The output share of a node: the seed's value, plus the final correction at
\* the last level when the control bit is set, negated for party 1.
ShareOf(key, v) == IF key.party_id = 1 THEN GroupNeg(v) ELSE v

OutputValue(key, node, level, domain_bits) ==
    ShareOf(key,
            IF level = domain_bits /\ node.control_bit = 1
            THEN GroupAdd(Convert(node.seed), key.last_level_correction)
            ELSE Convert(node.seed))

\* The result of an evaluation that reached the nodes `nodes` at depth `to`.
Evaluated(p, ctx, to, nodes) ==
    [ok |-> TRUE, code |-> kOk,
     result |-> [i \in 1 .. Len(nodes) |->
                    OutputValue(ctx.key, nodes[i], to, p.domain_bits)],
     context |-> [key |-> ctx.key, current_level |-> to, frontier |-> nodes]]

\* The evaluation of `prefixes` down to depth `to`.
EvaluateTo(p, prefixes, ctx, to) ==
    IF \E i \in 1 .. Len(prefixes) : prefixes[i] >= Pow2(to)
    THEN [ok |-> FALSE, code |-> kInvalidArgument, context |-> ctx,
          message |-> "prefix does not match the level"]
    ELSE Evaluated(p, ctx, to,
                   [i \in 1 .. Len(prefixes) |-> FrontierNode(ctx, to, prefixes[i])])

\* DistributedPointFunction::EvaluateNext<uint64_t>.
EvaluateNext(p, prefixes, ctx) ==
    IF ctx.current_level >= p.domain_bits
    THEN [ok |-> FALSE, code |-> kInvalidArgument, context |-> ctx,
          message |-> "context already fully evaluated"]
    ELSE EvaluateTo(p, prefixes, ctx, NextLevel(p, ctx.current_level))

(***************************************************************************)
(* Wire format of the messages (protobuf in the program): a message is a   *)
(* sequence of numbers, a type tag first, then the fields, the repeated    *)
(* ones behind their count.                                                *)
(***************************************************************************)
Tag(kind) ==
    CASE kind = "DpfParameters" -> 1
      [] kind = "DpfKey" -> 2
      [] kind = "EvaluationContext" -> 3

\* The correction words as the flat sequence of their fields.
CorrectionWordsWire(cws) ==
    [i \in 1 .. (3 * Len(cws)) |->
        CASE (i - 1) % 3 = 0 -> cws[((i - 1) \div 3) + 1].seed_correction
          [] (i - 1) % 3 = 1 -> cws[((i - 1) \div 3) + 1].control_bit_correction_left
          [] (i - 1) % 3 = 2 -> cws[((i - 1) \div 3) + 1].control_bit_correction_right]

\* The frontier as the flat sequence of its nodes' fields.
FrontierWire(frontier) ==
    [i \in 1 .. (3 * Len(frontier)) |->
        CASE (i - 1) % 3 = 0 -> frontier[((i - 1) \div 3) + 1].path_prefix
          [] (i - 1) % 3 = 1 -> frontier[((i - 1) \div 3) + 1].seed
          [] (i - 1) % 3 = 2 -> frontier[((i - 1) \div 3) + 1].control_bit]

ParametersWire(p) ==
    <<Tag("DpfParameters"), p.domain_bits, Len(p.levels)>> \o p.levels

KeyWire(k) ==
    <<Tag("DpfKey"), k.party_id, k.root_seed, k.root_control_bit,
      k.last_level_correction, Len(k.correction_words)>>
    \o CorrectionWordsWire(k.correction_words)

ContextWire(c) ==
    <<Tag("EvaluationContext"), c.current_level, Len(c.frontier)>>
    \o FrontierWire(c.frontier)
    \o KeyWire(c.key)

\* Message::ByteSizeLong.
ByteSizeLong(wire) == Len(wire)

DecodeParameters(w) ==
    IF Len(w) >= 3 /\ w[1] = Tag("DpfParameters") /\ Len(w) = 3 + w[3]
    THEN [ok |-> TRUE,
          msg |-> [domain_bits |-> w[2], levels |-> SubSeq(w, 4, Len(w))]]
    ELSE [ok |-> FALSE]

DecodeKey(w) ==
    IF Len(w) >= 6 /\ w[1] = Tag("DpfKey") /\ Len(w) = 6 + 3 * w[6]
    THEN [ok |-> TRUE,
          msg |-> [party_id |-> w[2], root_seed |-> w[3], root_control_bit |-> w[4],
                   last_level_correction |-> w[5],
                   correction_words |->
                       [i \in 1 .. w[6] |->
                           [seed_correction |-> w[6 + 3 * i - 2],
                            control_bit_correction_left |-> w[6 + 3 * i - 1],
                            control_bit_correction_right |-> w[6 + 3 * i]]]]]
    ELSE [ok |-> FALSE]

\* The context whose fields are the head of w and whose key decoded as `key`.
DecodedContext(w, key) ==
    IF key.ok
    THEN [ok |-> TRUE,
          msg |-> [key |-> key.msg, current_level |-> w[2],
                   frontier |->
                       [i \in 1 .. w[3] |->
                           [path_prefix |-> w[3 + 3 * i - 2],
                            seed |-> w[3 + 3 * i - 1],
                            control_bit |-> w[3 + 3 * i]]]]]
    ELSE [ok |-> FALSE]

DecodeContext(w) ==
    IF Len(w) >= 3 /\ w[1] = Tag("EvaluationContext") /\ Len(w) >= 3 + 3 * w[3]
    THEN DecodedContext(w, DecodeKey(SubSeq(w, 4 + 3 * w[3], Len(w))))
    ELSE [ok |-> FALSE]

\* The first l bytes at buf->c, none when the buffer is shorter than l.
BytesAt(buf) == IF buf.l > Len(buf.bytes) THEN <<>> ELSE SubSeq(buf.bytes, 1, buf.l)

\* Message::ParseFromArray(buf->c, buf->l) of the three message types.
ParseDpfParameters(buf) == DecodeParameters(BytesAt(buf))
ParseDpfKey(buf) == DecodeKey(BytesAt(buf))
ParseEvaluationContext(buf) == DecodeContext(BytesAt(buf))

\* Message::SerializeToArray(buf->c, buf->l): fails when l bytes do not hold it.
SerializeToArray(wire, buf) ==
    IF buf.l >= Len(wire)
    THEN [ok |-> TRUE, out |-> [c |-> buf.c, l |-> buf.l, bytes |-> wire]]
    ELSE [ok |-> FALSE, out |-> buf]

(***************************************************************************)
(* CBytes: a pointer c (null, live or freed), a length l, and the bytes    *)
(* the pointer leads to.                                                   *)
(***************************************************************************)
NullCBytes == [c |-> "null", l |-> 0, bytes |-> <<>>]

\* The outcomes of one heap allocation: it succeeds, or malloc returns null
\* and the allocator either stores the null pointer or leaves c as it was.
HeapOutcomes == {"ok", "fail_null", "fail_keep"}

\* AllocateCBytes(size, out): a fresh buffer of `size` bytes, or false.
AllocateCBytes(size, out, heap) ==
    CASE heap = "ok" ->
            [ok |-> TRUE,
             out |-> [c |-> "live", l |-> size, bytes |-> [i \in 1 .. size |-> 0]]]
      [] heap = "fail_null" ->
            [ok |-> FALSE, out |-> [c |-> "null", l |-> out.l, bytes |-> <<>>]]
      [] heap = "fail_keep" ->
            [ok |-> FALSE, out |-> out]

\* free(buf->c): the pointer stays, the memory is gone.
Free(buf) ==
    IF buf.c = "live" THEN [c |-> "freed", l |-> buf.l, bytes |-> buf.bytes] ELSE buf

(***************************************************************************)
(* The bridge: src/pipeline/distributed_point_function_c_bridge.cc.        *)
(* Each function is an operator from its arguments (and the outcomes of    *)
(* the allocations it makes) to its return code and its out-parameters;    *)
(* the operators below a function are its steps, last step first.          *)
(***************************************************************************)
\* Faulty variant of RawCode: every library failure reported as kInternal.
InternalCode(status) == kInternal

\* status.raw_code(): the code of a failed library status, returned as is.
RawCode(status) == status.code
\* status.message(), copied into out_error.
Message(status) == status.message

\* msg.SerializeToArray(out->c, out->l) once AllocateCBytes returned `a`.
CopyInto(wire, a) ==
    IF ~a.ok THEN [ok |-> FALSE, out |-> a.out] ELSE SerializeToArray(wire, a.out)

\* !AllocateCBytes(msg.ByteSizeLong(), out) || !msg.SerializeToArray(out->c, out->l)
CopyMessage(wire, out, heap) ==
    CopyInto(wire, AllocateCBytes(ByteSizeLong(wire), out, heap))

\* ---- CGenerateKeys ----
KeysReturn(rc, k1, k2, message) ==
    [rc |-> rc, out_key1 |-> k1, out_key2 |-> k2, out_error |-> message]

\* Faulty variant of SecondKey: the first key handed out twice.
FirstKey(keys) == keys.first

\* The key serialized into out_key2.
SecondKey(keys) == keys.second

GenerateKeysCopied2(k1, k2) ==
    IF ~k2.ok
    THEN KeysReturn(kInternal, k1.out, k2.out, "fail to copy DpfKey")
    ELSE KeysReturn(kOk, k1.out, k2.out, "")

GenerateKeysCopied1(keys, k1, out_key2, heap) ==
    IF ~k1.ok
    THEN KeysReturn(kInternal, k1.out, out_key2, "fail to copy DpfKey")
    ELSE GenerateKeysCopied2(k1, CopyMessage(KeyWire(SecondKey(keys)), out_key2, heap[2]))

GenerateKeysGenerated(keys, out_key1, out_key2, heap) ==
    IF ~keys.ok
    THEN KeysReturn(RawCode(keys), out_key1, out_key2, Message(keys))
    ELSE GenerateKeysCopied1(keys, CopyMessage(KeyWire(keys.first), out_key1, heap[1]),
                             out_key2, heap)

GenerateKeysCreated(dpf, alpha, beta, out_key1, out_key2, seeds, heap) ==
    IF ~dpf.ok
    THEN KeysReturn(RawCode(dpf), out_key1, out_key2, Message(dpf))
    ELSE GenerateKeysGenerated(GenerateKeys(dpf.parameters, alpha, beta, seeds),
                               out_key1, out_key2, heap)

GenerateKeysParsed(parameters, alpha, beta, out_key1, out_key2, seeds, heap) ==
    IF ~parameters.ok
    THEN KeysReturn(kInvalidArgument, out_key1, out_key2, "fail to parse DpfParameter")
    ELSE GenerateKeysCreated(Create(parameters.msg), alpha, beta, out_key1, out_key2,
                             seeds, heap)

CGenerateKeys(param, alpha, beta, out_key1, out_key2, seeds, heap) ==
    GenerateKeysParsed(ParseDpfParameters(param), alpha, beta, out_key1, out_key2,
                       seeds, heap)

\* ---- CCreateEvaluationContext ----
ContextReturn(rc, ctx, message) ==
    [rc |-> rc, out_eval_context |-> ctx, out_error |-> message]

CreateContextCopied(copy) ==
    IF ~copy.ok
    THEN ContextReturn(kInternal, copy.out, "fail to copy EvaluationContext")
    ELSE ContextReturn(kOk, copy.out, "")

CreateContextCreated(eval_context, out_eval_context, heap) ==
    IF ~eval_context.ok
    THEN ContextReturn(RawCode(eval_context), out_eval_context, Message(eval_context))
    ELSE CreateContextCopied(
             CopyMessage(ContextWire(eval_context.context), out_eval_context, heap))

CreateContextKeyParsed(dpf, dpf_key, out_eval_context, heap) ==
    IF ~dpf_key.ok
    THEN ContextReturn(kInvalidArgument, out_eval_context, "fail to parse DpfKey")
    ELSE CreateContextCreated(CreateEvaluationContext(dpf.parameters, dpf_key.msg),
                              out_eval_context, heap)

CreateContextDpf(dpf, key, out_eval_context, heap) ==
    IF ~dpf.ok
    THEN ContextReturn(RawCode(dpf), out_eval_context, Message(dpf))
    ELSE CreateContextKeyParsed(dpf, ParseDpfKey(key), out_eval_context, heap)

CreateContextParsed(parameters, key, out_eval_context, heap) ==
    IF ~parameters.ok
    THEN ContextReturn(kInvalidArgument, out_eval_context, "fail to parse DpfParameter")
    ELSE CreateContextDpf(Create(parameters.msg), key, out_eval_context, heap)

CCreateEvaluationContext(param, key, out_eval_context, heap) ==
    CreateContextParsed(ParseDpfParameters(param), key, out_eval_context, heap)

\* ---- CEvaluateNext64 ----
EvalReturn(rc, ctx, vec, message) ==
    [rc |-> rc, mutable_context |-> ctx, out_vec |-> vec, out_error |-> message]

\* prefixes_128[i] = absl::uint128(prefixes[i]) for every i < prefixes_size.
Prefixes128(prefixes) == [i \in 1 .. Len(prefixes) |-> prefixes[i]]

\* Faulty variant of WriteBack: the buffer is left as it was.
WriteBackKept(eval_context, mutable_context, heap) ==
    [ok |-> TRUE, out |-> mutable_context]

\* free(mutable_context->c), then the advanced context is copied into a new
\* buffer behind mutable_context.
WriteBack(eval_context, mutable_context, heap) ==
    CopyMessage(ContextWire(eval_context), Free(mutable_context), heap)

\* Faulty variant of CopyResult: the values copied back to front.
CopyResultReversed(result) ==
    [i \in 1 .. Len(result) |-> result[Len(result) + 1 - i] % Modulus]

\* out_vec->vec[i] = (uint64_t)((*maybe_result)[i]) for every i < size.
CopyResult(result) == [i \in 1 .. Len(result) |-> result[i] % Modulus]

\* out_vec->vec_size = size; out_vec->vec = calloc(size, 8); the copy loop.
EvaluateNextOutput(result, copy, heap) ==
    IF heap # "ok"
    THEN EvalReturn(kInternal, copy.out,
                    [vec_size |-> Len(result), ptr |-> "null", vec |-> <<>>],
                    "fail to allocate memory for expanded vector")
    ELSE EvalReturn(kOk, copy.out,
                    [vec_size |-> Len(result), ptr |-> "live",
                     vec |-> CopyResult(result)],
                    "")

EvaluateNextCopied(maybe_result, copy, out_vec, heap) ==
    IF ~copy.ok
    THEN EvalReturn(kInternal, copy.out, out_vec, "fail to copy EvaluationContext")
    ELSE EvaluateNextOutput(maybe_result.result, copy, heap[2])

\* Faulty variant of EvaluateNextFailed: the context buffer is released before
\* the failure is returned.
EvaluateNextFailedFreeing(maybe_result, mutable_context, out_vec) ==
    EvalReturn(RawCode(maybe_result), Free(mutable_context), out_vec,
               Message(maybe_result))

\* Faulty variant of EvaluateNextFailed: the failure is swallowed.
EvaluateNextFailedOk(maybe_result, mutable_context, out_vec) ==
    EvalReturn(kOk, mutable_context, out_vec, Message(maybe_result))

\* The return on a failed EvaluateNext: the status code, nothing else touched.
EvaluateNextFailed(maybe_result, mutable_context, out_vec) ==
    EvalReturn(RawCode(maybe_result), mutable_context, out_vec, Message(maybe_result))

EvaluateNextEvaluated(maybe_result, mutable_context, out_vec, heap) ==
    IF ~maybe_result.ok
    THEN EvaluateNextFailed(maybe_result, mutable_context, out_vec)
    ELSE EvaluateNextCopied(maybe_result,
                            WriteBack(maybe_result.context, mutable_context, heap[1]),
                            out_vec, heap)

EvaluateNextContextParsed(dpf, prefixes_128, eval_context, mutable_context, out_vec, heap) ==
    IF ~eval_context.ok
    THEN EvalReturn(kInvalidArgument, mutable_context, out_vec,
                    "fail to parse EvaluationContext")
    ELSE EvaluateNextEvaluated(
             EvaluateNext(dpf.parameters, prefixes_128, eval_context.msg),
             mutable_context, out_vec, heap)

EvaluateNextDpf(dpf, prefixes, mutable_context, out_vec, heap) ==
    IF ~dpf.ok
    THEN EvalReturn(RawCode(dpf), mutable_context, out_vec, Message(dpf))
    ELSE EvaluateNextContextParsed(dpf, Prefixes128(prefixes),
                                   ParseEvaluationContext(mutable_context),
                                   mutable_context, out_vec, heap)

EvaluateNextParsed(parameters, prefixes, mutable_context, out_vec, heap) ==
    IF ~parameters.ok
    THEN EvalReturn(kInvalidArgument, mutable_context, out_vec,
                    "fail to parse DpfParameter")
    ELSE EvaluateNextDpf(Create(parameters.msg), prefixes, mutable_context, out_vec, heap)

CEvaluateNext64(param, prefixes, mutable_context, out_vec, heap) ==
    EvaluateNextParsed(ParseDpfParameters(param), prefixes, mutable_context, out_vec, heap)

(***************************************************************************)
(* The state: the caller's buffers and what the last call returned.        *)
(***************************************************************************)
VARIABLES
    param,            \* the serialized DpfParameters of the session
    out_key1,         \* CGenerateKeys' first out-parameter
    out_key2,         \* CGenerateKeys' second out-parameter
    mutable_context,  \* per party: the in/out context buffer
    out_vec,          \* per party: CEvaluateNext64's output vector
    out_error,        \* the caller's error string, written by a failing call
    ret,              \* the last call: function, party and return code
    keygen,           \* the arguments of the last CGenerateKeys call
    prefixes,         \* per party: the prefixes of its last call that returned kOk
    ok_calls,         \* per party: how many CEvaluateNext64 calls returned kOk
    resumed,          \* per party: the last kOk call found every ancestor in the frontier
    crashed           \* the process was killed by a bad memory access

vars ==
    <<param, out_key1, out_key2, mutable_context, out_vec, out_error, ret,
      keygen, prefixes, ok_calls, resumed, crashed>>

Parties == {0, 1}

\* The elements of a set of numbers in increasing order.
SortedSeq(S) ==
    [i \in 1 .. Cardinality(S) |->
        CHOOSE x \in S : Cardinality({y \in S : y < x}) = i - 1]

\* Every valid parameter set with domain_bits in `bits`.
ParameterChoices(bits) ==
    UNION {{[domain_bits |-> n, levels |-> SortedSeq(S \cup {n})] :
                S \in SUBSET (1 .. (n - 1))} : n \in bits}

\* A caller's buffer holding a serialized message.
BytesOf(wire) == [c |-> "live", l |-> Len(wire), bytes |-> wire]

\* The session's parameters.
Parameters == ParseDpfParameters(param).msg
DomainBits == Parameters.domain_bits

\* Bytes that decode to no message.
GarbageBytes == BytesOf(<<0>>)
\* Parameters the parameter model rejects.
InvalidParameterBytes == BytesOf(ParametersWire([domain_bits |-> 0, levels |-> <<>>]))
\* Valid parameters of another domain than the session's.
OtherParameterBytes ==
    BytesOf(ParametersWire([domain_bits |-> DomainBits + 1,
                            levels |-> <<DomainBits + 1>>]))

InitBuffers ==
    /\ out_key1 = NullCBytes
    /\ out_key2 = NullCBytes
    /\ mutable_context = [p \in Parties |-> NullCBytes]
    /\ out_vec = [p \in Parties |-> [vec_size |-> 0, ptr |-> "null", vec |-> <<>>]]
    /\ out_error = ""
    /\ ret = [op |-> "none", who |-> -1, rc |-> kOk]
    /\ keygen = [param |-> NullCBytes, alpha |-> 0, beta |-> 0, heap |-> <<"ok", "ok">>]
    /\ prefixes = [p \in Parties |-> <<>>]
    /\ ok_calls = [p \in Parties |-> 0]
    /\ resumed = [p \in Parties |-> FALSE]
    /\ crashed = FALSE

(***************************************************************************)
(* The calls.                                                              *)
(***************************************************************************)
\* The heap outcomes of CGenerateKeys' two allocations; the second one is
\* only made when the first succeeded.
KeyHeaps == {<<"ok", h>> : h \in HeapOutcomes} \cup {<<h, "ok">> : h \in HeapOutcomes}
\* The same for CEvaluateNext64: AllocateCBytes, then calloc.
EvalHeaps == {<<"ok", "ok">>, <<"ok", "fail_null">>, <<"fail_null", "ok">>,
              <<"fail_keep", "ok">>}

\* The caller's variables after CGenerateKeys returned r.
ReturnGenerateKeys(r, pin, alpha, beta, heap) ==
    /\ out_key1' = r.out_key1
    /\ out_key2' = r.out_key2
    /\ out_error' = IF r.rc = kOk THEN out_error ELSE r.out_error
    /\ ret' = [op |-> "CGenerateKeys", who |-> -1, rc |-> r.rc]
    /\ keygen' = [param |-> pin, alpha |-> alpha, beta |-> beta, heap |-> heap]
    /\ UNCHANGED <<param, mutable_context, out_vec, prefixes, ok_calls, resumed, crashed>>

CallGenerateKeys(params, alphas, betas, seedPairs, heaps) ==
    /\ ~crashed
    /\ out_key1.c # "live" \/ out_key2.c # "live"
    /\ \A p \in Parties : mutable_context[p] = NullCBytes
    /\ \E pin \in params, alpha \in alphas, beta \in betas,
          seeds \in seedPairs, heap \in heaps :
          ReturnGenerateKeys(
              CGenerateKeys(pin, alpha, beta, out_key1, out_key2, seeds, heap),
              pin, alpha, beta, heap)

KeyOf(p) == IF p = 0 THEN out_key1 ELSE out_key2

\* Faulty variant of Store: one buffer shared by all parties.
StoreAll(buffers, p, value) == [q \in DOMAIN buffers |-> value]

\* The write through the caller's pointer for party p.
Store(buffers, p, value) == [buffers EXCEPT ![p] = value]

ReturnCreateEvaluationContext(p, r) ==
    /\ mutable_context' = Store(mutable_context, p, r.out_eval_context)
    /\ out_error' = IF r.rc = kOk THEN out_error ELSE r.out_error
    /\ ret' = [op |-> "CCreateEvaluationContext", who |-> p, rc |-> r.rc]
    /\ UNCHANGED <<param, out_key1, out_key2, out_vec, keygen, prefixes, ok_calls,
                   resumed, crashed>>

CallCreateEvaluationContext(p, params, keys, heaps) ==
    /\ ~crashed
    /\ out_key1.c = "live" /\ out_key2.c = "live"
    /\ mutable_context[p] = NullCBytes
    /\ \E pin \in params, key \in keys, heap \in heaps :
          ReturnCreateEvaluationContext(
              p, CCreateEvaluationContext(pin, key, mutable_context[p], heap))

\* The depth the next evaluation on a context reaches (domain_bits when the
\* context is complete).
TargetLevel(ctx) ==
    IF ctx.current_level >= DomainBits THEN DomainBits
    ELSE NextLevel(Parameters, ctx.current_level)

\* Whether every prefix has its ancestor in the context's frontier.
AllInFrontier(ctx, req) ==
    \A i \in 1 .. Len(req) :
        FrontierHits(ctx, Ancestor(req[i], TargetLevel(ctx), ctx.current_level)) # {}

\* The caller's variables after CEvaluateNext64 on party p's context returned
\* r; ctx is the context the buffer held before the call.
ReturnEvaluateNext(p, req, r, ctx) ==
    /\ mutable_context' = Store(mutable_context, p, r.mutable_context)
    /\ out_vec' = Store(out_vec, p, r.out_vec)
    /\ out_error' = IF r.rc = kOk THEN out_error ELSE r.out_error
    /\ ret' = [op |-> "CEvaluateNext64", who |-> p, rc |-> r.rc]
    /\ prefixes' = IF r.rc = kOk THEN Store(prefixes, p, req) ELSE prefixes
    /\ ok_calls' = IF r.rc = kOk THEN Store(ok_calls, p, ok_calls[p] + 1)
                   ELSE ok_calls
    /\ resumed' = IF r.rc = kOk THEN Store(resumed, p, AllInFrontier(ctx, req))
                  ELSE resumed
    /\ UNCHANGED <<param, out_key1, out_key2, keygen, crashed>>

\* Every list of at most `n` elements of `values`.
ListsUpTo(values, n) == UNION {[1 .. k -> values] : k \in 0 .. n}

\* The prefix lists a caller passes for target depth t.  "lists": every list
\* of at most MaxReq prefixes among the first and the last one, and the first
\* value that is no t-bit prefix.  "domain": all 2^t prefixes in order, or
\* the last prefix alone.
Requests(kind, t) ==
    IF kind = "lists"
    THEN ListsUpTo({0, Pow2(t) - 1}, MaxReq) \cup {<<Pow2(t)>>}
    ELSE {[i \in 1 .. Pow2(t) |-> i - 1], <<Pow2(t) - 1>>}

\* The arguments of CEvaluateNext64 calls: the session's parameters with every
\* request when the heap has room, with the empty request (calloc(0, 8) may
\* return null) and the last prefix alone for every other heap outcome, and
\* (with "lists") each of the bad parameter buffers once.
EvalInputs(kind, t, heaps) ==
    {<<param, req, <<"ok", "ok">>>> : req \in Requests(kind, t)}
    \cup {<<param, req, heap>> :
             req \in Requests(kind, t) \cap {<<>>, <<Pow2(t) - 1>>}, heap \in heaps}
    \cup (IF kind = "lists"
          THEN {<<GarbageBytes, <<>>, <<"ok", "ok">>>>,
                <<InvalidParameterBytes, <<>>, <<"ok", "ok">>>>}
          ELSE {})

\* CEvaluateNext64 on party p's buffer, read as `buffer`, which holds ctx.
EvaluateOn(p, buffer, ctx, kind, heaps) ==
    \E in \in EvalInputs(kind, TargetLevel(ctx), heaps) :
        ReturnEvaluateNext(p, in[2],
                           CEvaluateNext64(in[1], in[2], buffer, out_vec[p], in[3]),
                           ctx)

\* CEvaluateNext64 on a live context buffer.
CallEvaluateNext(p, kind, heaps) ==
    /\ ~crashed
    /\ mutable_context[p].c = "live"
    /\ EvaluateOn(p, mutable_context[p],
                  ParseEvaluationContext(mutable_context[p]).msg, kind, heaps)

\* A context buffer the bridge released and could not replace: the pointer
\* dangles (c = "freed") or is null while l still holds the old length.
Lost(buffer) == buffer.c = "freed" \/ (buffer.c = "null" /\ buffer.l > 0)

\* The dangling buffer as the read of its old bytes sees it.
Stale(buffer) == [c |-> "live", l |-> buffer.l, bytes |-> buffer.bytes]

\* CEvaluateNext64 on a lost context buffer reads memory it does not own.  The
\* read faults and the process dies; or (dangling pointer) the bytes read
\* decode to nothing; or the old bytes are still there, the call goes on as
\* on a live buffer and its free() of the dangling pointer goes unnoticed.
CallEvaluateNextLost(p, kind, heaps) ==
    /\ ~crashed
    /\ Lost(mutable_context[p])
    /\ \/ /\ crashed' = TRUE
          /\ UNCHANGED <<param, out_key1, out_key2, mutable_context, out_vec,
                         out_error, ret, keygen, prefixes, ok_calls, resumed>>
       \/ /\ mutable_context[p].c = "freed"
          /\ ret' = [op |-> "CEvaluateNext64", who |-> p, rc |-> kInvalidArgument]
          /\ out_error' = "fail to parse EvaluationContext"
          /\ UNCHANGED <<param, out_key1, out_key2, mutable_context, out_vec,
                         keygen, prefixes, ok_calls, resumed, crashed>>
       \/ /\ mutable_context[p].c = "freed"
          /\ EvaluateOn(p, Stale(mutable_context[p]),
                        ParseEvaluationContext(Stale(mutable_context[p])).msg,
                        kind, heaps)

(***************************************************************************)
(* Spec: one session with one evaluation context (either party's), every   *)
(* list of prefixes and every heap outcome.                                *)
(***************************************************************************)
KeyParams == {param, GarbageBytes, InvalidParameterBytes}
ContextParams == {param, GarbageBytes, InvalidParameterBytes, OtherParameterBytes}

\* alpha: the first index, the last one, and the first one out of the domain.
EdgeAlphas == {0, Pow2(DomainBits) - 1, Pow2(DomainBits)}
EdgeBetas == {Modulus - 1}
EdgeSeeds == {<<1, 6>>}

Init ==
    /\ param \in {BytesOf(ParametersWire(q)) : q \in ParameterChoices(1 .. MaxBits)}
    /\ InitBuffers

Next ==
    \/ CallGenerateKeys(KeyParams, EdgeAlphas, EdgeBetas, EdgeSeeds, KeyHeaps)
    \/ \E p \in Parties :
          /\ \A q \in Parties \ {p} : mutable_context[q] = NullCBytes
          /\ CallCreateEvaluationContext(p, ContextParams, {KeyOf(p), param},
                                         HeapOutcomes)
    \/ \E p \in Parties : CallEvaluateNext(p, "lists", EvalHeaps)
    \/ \E p \in Parties : CallEvaluateNextLost(p, "lists", EvalHeaps)

Spec == Init /\ [][Next]_vars

(***************************************************************************)
(* SpecPair: both parties' contexts side by side, their calls interleaved  *)
(* in every order, no allocation failing.  The domains are those of Spec   *)
(* and the one of the concrete scenario (domain_bits 4, alpha 5, beta 7);  *)
(* the requests are the whole domain of the level or one prefix.           *)
(***************************************************************************)
Scenario == [domain_bits |-> 4, alpha |-> 5, beta |-> 7]
\* The scenario's domain evaluated in one call, or in two with a checkpoint
\* half way down.
ScenarioParameters ==
    {[domain_bits |-> Scenario.domain_bits, levels |-> <<Scenario.domain_bits>>],
     [domain_bits |-> Scenario.domain_bits,
      levels |-> <<Scenario.domain_bits \div 2, Scenario.domain_bits>>]}

\* Every index of the domain and the first one outside it; the scenario's
\* alpha alone for the scenario's domain.
PairAlphas ==
    IF DomainBits <= MaxBits THEN 0 .. Pow2(DomainBits) ELSE {Scenario.alpha}
PairBetas ==
    IF DomainBits <= MaxBits THEN {0, Scenario.beta} ELSE {Scenario.beta}
PairSeeds ==
    {<<1, 4>>, <<5, 5>>}

InitPair ==
    /\ param \in {BytesOf(ParametersWire(q)) :
                    q \in ParameterChoices(1 .. MaxBits) \cup ScenarioParameters}
    /\ InitBuffers

NextPair ==
    \/ CallGenerateKeys({param}, PairAlphas, PairBetas, PairSeeds, {<<"ok", "ok">>})
    \/ \E p \in Parties : CallCreateEvaluationContext(p, {param}, {KeyOf(p)}, {"ok"})
    \/ \E p \in Parties : CallEvaluateNext(p, "domain", {<<"ok", "ok">>})

SpecPair == InitPair /\ [][NextPair]_vars

(***************************************************************************)
(* Properties.  Those about one context are checked under Spec, those      *)
(* about the two parties' contexts under SpecPair.                         *)
(***************************************************************************)
EvalOp == "CEvaluateNext64"
KeysOp == "CGenerateKeys"

\* A context buffer is live / its bytes (still) decode to a context.
LiveIn(buffer) == buffer.c = "live"
DecodableIn(buffer) == ParseEvaluationContext(buffer).ok
\* The context a buffer holds, and its level.
ContextIn(buffer) == ParseEvaluationContext(buffer).msg
LevelIn(buffer) == ContextIn(buffer).current_level

\* The same of party p's buffer.
Live(p) == LiveIn(mutable_context[p])
Decodable(p) == DecodableIn(mutable_context[p])
ContextOf(p) == ContextIn(mutable_context[p])
LevelOf(p) == LevelIn(mutable_context[p])
Complete(p) == Live(p) /\ Decodable(p) /\ LevelOf(p) = DomainBits

\* A CEvaluateNext64 call on party p's context returns in this step.
EvalStep(p) == ret'.op = EvalOp /\ ret'.who = p
\* ... and returns kOk.
EvalOkStep(p) == EvalStep(p) /\ ret'.rc = kOk /\ ok_calls'[p] = ok_calls[p] + 1

\* The node of the `level`-bit path x in key's tree, computed from the root.
NodeOf(key, level, x) == Descend(key, RootNode(key), 0, level, x)
\* The output share of key for the `level`-bit path x, computed from the root.
Reference(key, level, x) ==
    OutputValue(key, NodeOf(key, level, x), level, DomainBits) % Modulus

\* ---------------------------------------------------------------- C2
\* C2: a CEvaluateNext64 call on a context whose current_level is already
\* domain_bits returns kInvalidArgument and leaves the bytes of
\* mutable_context (and the output vector) exactly as they were.
TerminalStateRejected ==
    [][\A p \in Parties :
          (Complete(p) /\ EvalStep(p)) =>
              /\ ret'.rc = kInvalidArgument
              /\ mutable_context'[p] = mutable_context[p]
              /\ out_vec'[p] = out_vec[p]]_vars

\* A complete context was evaluated once more and the engine refused.
TerminalStateRejectedWitness ==
    \E p \in Parties :
        /\ Complete(p)
        /\ ret = [op |-> EvalOp, who |-> p, rc |-> kInvalidArgument]
        /\ out_error = "context already fully evaluated"
        /\ ok_calls[p] >= 1

\* ---------------------------------------------------------------- C3
\* C3: every operation is all-or-nothing: a call that returns a non-OK code
\* has written none of its outputs (out_key1, out_key2, the context buffer,
\* out_vec are as before the call).
AllOrNothing ==
    [][ret'.rc # kOk =>
          /\ out_key1' = out_key1
          /\ out_key2' = out_key2
          /\ mutable_context' = mutable_context
          /\ out_vec' = out_vec]_vars

\* CGenerateKeys returned kInternal and left the first key behind.
PartialKeys ==
    /\ ret = [op |-> KeysOp, who |-> -1, rc |-> kInternal]
    /\ out_key1.c = "live"
    /\ ParseDpfKey(out_key1).ok
    /\ out_key2.c # "live"

\* ---------------------------------------------------------------- C4
\* The outputs for `req` of a fresh context on `key` evaluated to domain_bits
\* in one call.
OneShot(key, req) ==
    EvaluateNext([domain_bits |-> DomainBits, levels |-> <<DomainBits>>], req,
                 CreateEvaluationContext(
                     [domain_bits |-> DomainBits, levels |-> <<DomainBits>>],
                     key).context).result

\* C4: a context evaluated to an intermediate level on the ancestors of the
\* prefixes and then, in a later call, to domain_bits gives the same final
\* outputs as a fresh context evaluated to domain_bits in one call.
IncrementalEqualsOneShot ==
    \A p \in Parties :
        (Complete(p) /\ ok_calls[p] >= 2 /\ resumed[p] /\ out_vec[p].ptr = "live") =>
            out_vec[p].vec = OneShot(ContextOf(p).key, prefixes[p])

\* Two calls reached domain_bits, the second one from the frontier, for two
\* different prefixes.
IncrementalEqualsOneShotWitness ==
    \E p \in Parties :
        /\ Complete(p) /\ ok_calls[p] >= 2 /\ resumed[p] /\ out_vec[p].ptr = "live"
        /\ ret = [op |-> EvalOp, who |-> p, rc |-> kOk]
        /\ Len(prefixes[p]) = 2
        /\ prefixes[p][1] # prefixes[p][2]
        /\ out_vec[p].vec[1] # out_vec[p].vec[2]

\* ---------------------------------------------------------------- C5
\* C5: along the calls on one context the level never decreases and never
\* exceeds domain_bits; a call that returns kOk moves it from k to k' >= k;
\* at domain_bits the context is terminal: every further call fails and the
\* buffer stays as it is.
LevelMonotone ==
    [][\A p \in Parties :
          /\ (mutable_context'[p] # mutable_context[p] /\ Decodable(p)) =>
                 /\ ~Complete(p)
                 /\ EvalOkStep(p) =>
                        LiveIn(mutable_context'[p]) /\ DecodableIn(mutable_context'[p])
                 /\ DecodableIn(mutable_context'[p]) =>
                        /\ LevelOf(p) <= LevelIn(mutable_context'[p])
                        /\ LevelIn(mutable_context'[p]) <= DomainBits
          /\ (EvalStep(p) /\ ret'.rc = kOk) => ~Complete(p)]_vars

\* Fresh -> Partial -> Complete -> a refused call.
LevelMonotoneWitness ==
    \E p \in Parties :
        /\ Complete(p)
        /\ ok_calls[p] >= 2
        /\ ret.op = EvalOp /\ ret.who = p /\ ret.rc # kOk

\* ---------------------------------------------------------------- C6
\* C6: a CEvaluateNext64 call that returned kOk for n prefixes left exactly
\* n values in out_vec, the i-th one the evaluation of the i-th prefix;
\* equal prefixes have equal values, each at its own position.
OutputsInRequestOrder ==
    \A p \in Parties :
        ret = [op |-> EvalOp, who |-> p, rc |-> kOk] =>
            /\ out_vec[p].ptr = "live"
            /\ out_vec[p].vec_size = Len(prefixes[p])
            /\ Len(out_vec[p].vec) = Len(prefixes[p])
            /\ \A i \in 1 .. Len(prefixes[p]) :
                  out_vec[p].vec[i] =
                      Reference(ContextOf(p).key, LevelOf(p), prefixes[p][i])
            /\ \A i, j \in 1 .. Len(prefixes[p]) :
                  prefixes[p][i] = prefixes[p][j] =>
                      out_vec[p].vec[i] = out_vec[p].vec[j]

\* The same prefix requested twice at the last level: two entries.
OutputsInRequestOrderWitness ==
    \E p \in Parties :
        /\ ret = [op |-> EvalOp, who |-> p, rc |-> kOk]
        /\ Len(prefixes[p]) = 2
        /\ prefixes[p][1] = prefixes[p][2]
        /\ out_vec[p].vec_size = 2
        /\ out_vec[p].vec[1] = out_vec[p].vec[2]
        /\ LevelOf(p) = DomainBits

\* ---------------------------------------------------------------- C7
\* C7: CGenerateKeys on valid parameters succeeds for every alpha below
\* 2^domain_bits (0 and 2^domain_bits - 1 among them, domain_bits = 1
\* included) when its allocations succeed, and never answers such an alpha
\* with kInvalidArgument; for alpha >= 2^domain_bits it returns
\* kInvalidArgument and writes no key.
AlphaRange ==
    [][(ret'.op = KeysOp /\ keygen'.param = param) =>
          /\ (keygen'.alpha < Pow2(DomainBits) /\ keygen'.heap = <<"ok", "ok">>) =>
                 /\ ret'.rc = kOk
                 /\ ParseDpfKey(out_key1').ok /\ out_key1'.c = "live"
                 /\ ParseDpfKey(out_key2').ok /\ out_key2'.c = "live"
          /\ keygen'.alpha < Pow2(DomainBits) => ret'.rc # kInvalidArgument
          /\ keygen'.alpha >= Pow2(DomainBits) =>
                 /\ ret'.rc = kInvalidArgument
                 /\ out_key1' = out_key1
                 /\ out_key2' = out_key2]_vars

\* domain_bits = 1: alpha = 2 was refused, then alpha = 1 was accepted.
AlphaRangeWitness ==
    /\ DomainBits = 1
    /\ keygen.param = param
    /\ keygen.alpha = Pow2(DomainBits) - 1
    /\ ret = [op |-> KeysOp, who |-> -1, rc |-> kOk]
    /\ out_error = "alpha or beta out of range"
    /\ out_key1.c = "live" /\ out_key2.c = "live"

\* ---------------------------------------------------------------- C9
\* The context `new` is what a call for `req` makes of the context `old`.
FrontierIsRequestOf(old, new, req) ==
    /\ new.current_level = TargetLevel(old)
    /\ Len(new.frontier) = Len(req)
    /\ \A i \in 1 .. Len(req) :
          new.frontier[i] = NodeOf(old.key, new.current_level, req[i])
    /\ {new.frontier[i].path_prefix : i \in 1 .. Len(new.frontier)}
       = {req[i] : i \in 1 .. Len(req)}
    /\ new.key = old.key

\* C9: after a CEvaluateNext64 call that returned kOk, current_level is the
\* level the call evaluated to and the frontier holds exactly the nodes of
\* the requested prefixes, in request order: every requested prefix is in
\* it and nothing else is.
FrontierIsRequest ==
    [][\A p \in Parties :
          (Decodable(p) /\ EvalOkStep(p)) =>
              FrontierIsRequestOf(ContextOf(p), ContextIn(mutable_context'[p]),
                                  prefixes'[p])]_vars

\* A second call asked for one prefix whose sibling branch was in the
\* frontier; only the requested node is left.
FrontierIsRequestWitness ==
    \E p \in Parties :
        /\ ret = [op |-> EvalOp, who |-> p, rc |-> kOk]
        /\ ok_calls[p] >= 2
        /\ Live(p)
        /\ Len(ContextOf(p).frontier) = 1
        /\ ContextOf(p).frontier[1].path_prefix = Pow2(DomainBits) - 1
        /\ LevelOf(p) = DomainBits

\* ---------------------------------------------------------------- C10
\* The level a context is at after k calls that returned kOk.
LevelAfter(k) == IF k = 0 THEN 0 ELSE Parameters.levels[k]

\* C10: once created, the context buffer always holds a live, decodable
\* context, the one the last call that returned kOk left (the initial one
\* when none did), whatever the calls since then returned.
ContextResumable ==
    \A p \in Parties :
        mutable_context[p] # NullCBytes =>
            /\ Live(p)
            /\ Decodable(p)
            /\ LevelOf(p) = LevelAfter(ok_calls[p])
            /\ ok_calls[p] = 0 => ContextOf(p).frontier = <<RootNode(ContextOf(p).key)>>
            /\ ok_calls[p] > 0 =>
                   ContextOf(p).frontier =
                       [i \in 1 .. Len(prefixes[p]) |->
                           NodeOf(ContextOf(p).key, LevelOf(p), prefixes[p][i])]

\* A call returned kInternal and the context buffer is gone.
ContextLost ==
    \E p \in Parties :
        /\ ret = [op |-> EvalOp, who |-> p, rc |-> kInternal]
        /\ Lost(mutable_context[p])

\* A call returned kInternal and the context is one level further than the
\* last call that returned kOk left it.
ContextAdvancedOnFailure ==
    \E p \in Parties :
        /\ ret = [op |-> EvalOp, who |-> p, rc |-> kInternal]
        /\ Live(p) /\ Decodable(p)
        /\ LevelOf(p) > LevelAfter(ok_calls[p])
        /\ out_vec[p].ptr = "null" /\ out_vec[p].vec_size > 0

\* ---------------------------------------------------------------- C1
\* The sum of the two parties' outputs at positions i and j.
SumAt(i, j) == GroupAdd(out_vec[0].vec[i], out_vec[1].vec[j])

\* C1: with one context per key, both evaluated to domain_bits, the two
\* parties' outputs for the same full-width prefix x add up (in the output
\* group) to beta when x = alpha and to 0 otherwise.
PointFunction ==
    (/\ Complete(0) /\ out_vec[0].ptr = "live"
     /\ Complete(1) /\ out_vec[1].ptr = "live") =>
        \A i \in 1 .. Len(prefixes[0]), j \in 1 .. Len(prefixes[1]) :
            prefixes[0][i] = prefixes[1][j] =>
                SumAt(i, j) = IF prefixes[0][i] = keygen.alpha THEN keygen.beta ELSE 0

\* The scenario: domain_bits 4, alpha 5, beta 7, all 16 prefixes; the sums
\* are 0 everywhere but at index 5, where they are 7.
PointFunctionWitness ==
    /\ DomainBits = Scenario.domain_bits
    /\ keygen.alpha = Scenario.alpha /\ keygen.beta = Scenario.beta
    /\ Complete(0) /\ out_vec[0].ptr = "live"
    /\ Complete(1) /\ out_vec[1].ptr = "live"
    /\ prefixes[0] = [i \in 1 .. Pow2(DomainBits) |-> i - 1]
    /\ prefixes[1] = prefixes[0]
    /\ [i \in 1 .. Pow2(DomainBits) |-> SumAt(i, i)]
       = [i \in 1 .. Pow2(DomainBits) |->
             IF i - 1 = Scenario.alpha THEN Scenario.beta ELSE 0]
    /\ out_vec[0].vec[Scenario.alpha + 1] # Scenario.beta

\* ---------------------------------------------------------------- C8
\* The two parties' keys as CGenerateKeys left them.
KeyMessage(p) == ParseDpfKey(KeyOf(p)).msg

\* The context ctx and the outputs vec are what `key`, `calls` calls that
\* returned kOk and the last request `req` make them.
OwnStateOf(ctx, key, calls, req, vec) ==
    /\ ctx.key = key
    /\ ctx.current_level = LevelAfter(calls)
    /\ ctx.frontier =
           IF calls = 0 THEN <<RootNode(key)>>
           ELSE [i \in 1 .. Len(req) |-> NodeOf(key, ctx.current_level, req[i])]
    /\ vec.ptr = "live" =>
           vec.vec = [i \in 1 .. Len(req) |->
                         Reference(key, ctx.current_level, req[i])]

\* Party p's context is what its own key and its own calls make it.
OwnState(p, buffer, calls, req, vec) ==
    (LiveIn(buffer) /\ DecodableIn(buffer)) =>
        OwnStateOf(ContextIn(buffer), KeyMessage(p), calls, req, vec)

\* C8: the two contexts share no mutable state: a CEvaluateNext64 call on
\* one party's context leaves the other party's context and outputs as they
\* were, in every interleaving, and each context and its outputs are what
\* the party's own key and own calls determine.
ContextsIndependent ==
    [][\A p \in Parties :
          EvalStep(p) =>
              /\ \A q \in Parties \ {p} :
                    /\ mutable_context'[q] = mutable_context[q]
                    /\ out_vec'[q] = out_vec[q]
              /\ (mutable_context'[p] # mutable_context[p] \/ out_vec'[p] # out_vec[p])
                     => OwnState(p, mutable_context'[p], ok_calls'[p], prefixes'[p],
                                 out_vec'[p])]_vars

\* Both contexts were evaluated, the last call was on one of them, and
\* they are at different levels with different requests.
ContextsIndependentWitness ==
    \E p \in Parties :
        /\ ret = [op |-> EvalOp, who |-> p, rc |-> kOk]
        /\ ok_calls[0] >= 1 /\ ok_calls[1] >= 1
        /\ Live(0) /\ Live(1)
        /\ LevelOf(0) # LevelOf(1)
        /\ prefixes[0] # prefixes[1]
        /\ out_vec[0].vec # out_vec[1].vec
====
